---- MODULE Spec2Model ----
(***************************************************************************)
(* The education dashboard (src/app.py): one Streamlit script that is run  *)
(* from top to bottom on every user interaction.  A run loads the cached   *)
(* table, detects its shape, validates its columns, renders the three      *)
(* selectors, builds the long series of the selected slice and renders the *)
(* four charts.                                                            *)
(*                                                                         *)
(* Text (column names, cells) is a sequence of one-character strings, so   *)
(* that strip, isdigit, int and str are computed character by character.   *)
(* An empty CSV cell is read by pandas as NaN: the empty sequence.         *)
(* A float64 is a record [nan, v] with v counted in tenths, so that one    *)
(* fractional digit is representable and int() truncates.                  *)
(***************************************************************************)
EXTENDS Integers, Sequences, FiniteSets, TLC

\* The largest number of rows of a loaded table.
MaxRows == 3

(***************************************************************************)
(* Characters and Python's string builtins                                 *)
(***************************************************************************)
Digits == <<"0", "1", "2", "3", "4", "5", "6", "7", "8", "9">>

DigitSet == {Digits[i] : i \in 1..10}

\* The characters of the model in code point order (the order of sorted()).
Alphabet ==
  <<" ", ".", "0", "1", "2", "3", "4", "5", "6", "7", "8", "9",
    "A", "B", "C", "I", "J", "N", "V", "Y",
    "a", "b", "c", "d", "e", "i", "l", "m", "n", "o", "r", "t", "u", "x", "y">>

ord(ch) == CHOOSE i \in 1..Len(Alphabet) : Alphabet[i] = ch

DigitVal(ch) == (CHOOSE i \in 1..10 : Digits[i] = ch) - 1

RECURSIVE lstrip(_)
lstrip(s) == IF s # <<>> /\ Head(s) = " " THEN lstrip(Tail(s)) ELSE s

RECURSIVE rstrip(_)
rstrip(s) ==
  IF s # <<>> /\ s[Len(s)] = " " THEN rstrip(SubSeq(s, 1, Len(s) - 1)) ELSE s

\* str.strip()
strip(s) == rstrip(lstrip(s))

\* str.isdigit(): non-empty and every character a digit
isdigit(s) == s # <<>> /\ \A i \in 1..Len(s) : s[i] \in DigitSet

RECURSIVE DigitsValue(_)
DigitsValue(s) ==
  IF s = <<>> THEN 0
  ELSE 10 * DigitsValue(SubSeq(s, 1, Len(s) - 1)) + DigitVal(s[Len(s)])

\* int(<text>): Python ignores surrounding whitespace
int(s) == DigitsValue(strip(s))

\* str(<non-negative int>): the canonical decimal numeral
RECURSIVE str(_)
str(n) ==
  IF n < 10 THEN <<Digits[n + 1]>>
  ELSE str(n \div 10) \o <<Digits[(n % 10) + 1]>>

\* s < t for text, as Python compares strings
RECURSIVE TextLess(_, _)
TextLess(s, t) ==
  IF t = <<>> THEN FALSE
  ELSE IF s = <<>> THEN TRUE
  ELSE IF Head(s) # Head(t) THEN ord(Head(s)) < ord(Head(t))
  ELSE TextLess(Tail(s), Tail(t))

\* sorted(<set of text>)
RECURSIVE sorted(_)
sorted(S) ==
  IF S = {} THEN <<>>
  ELSE LET m == CHOOSE x \in S : \A y \in S \ {x} : TextLess(x, y)
       IN <<m>> \o sorted(S \ {m})

Min(a, b) == IF a <= b THEN a ELSE b

Max(a, b) == IF a >= b THEN a ELSE b

Range(s) == {s[i] : i \in 1..Len(s)}

(***************************************************************************)
(* float64 and pandas' lenient numeric coercion                            *)
(***************************************************************************)
NaN == [nan |-> TRUE, v |-> 0]

\* The float whose value is t tenths
Num(t) == [nan |-> FALSE, v |-> t]

\* int(<float>): truncation (the model has no negative numbers)
int_float(x) == x.v \div 10

\* pd.to_numeric(..., errors="coerce") of one cell: the numerals of the model
\* are digits, optionally followed by a point and at most one digit; anything
\* else, and a missing cell, becomes NaN.
to_numeric(s) ==
  IF isdigit(s) THEN Num(10 * DigitsValue(s))
  ELSE IF \E k \in 1..Len(s) :
            /\ s[k] = "."
            /\ isdigit(SubSeq(s, 1, k - 1))
            /\ Len(s) - k <= 1
            /\ (Len(s) > k => s[Len(s)] \in DigitSet)
       THEN LET k == CHOOSE j \in 1..Len(s) : s[j] = "."
            IN Num(10 * DigitsValue(SubSeq(s, 1, k - 1))
                   + (IF Len(s) > k THEN DigitVal(s[Len(s)]) ELSE 0))
       ELSE NaN

(***************************************************************************)
(* Tables                                                                  *)
(***************************************************************************)
CountryName == <<"C", "o", "u", "n", "t", "r", "y", " ", "N", "a", "m", "e">>

IndicatorName ==
  <<"I", "n", "d", "i", "c", "a", "t", "o", "r", " ", "N", "a", "m", "e">>

YearName == <<"Y", "e", "a", "r">>

ValueName == <<"V", "a", "l", "u", "e">>

\* c in df.columns
HasColumn(df, c) == c \in Range(df.columns)

\* df[c] of row r
Cell(df, r, c) ==
  df.rows[r][CHOOSE i \in 1..Len(df.columns) : df.columns[i] = c]

\* None, the value of a selectbox without options: equal to no cell
None == <<"None">>

(***************************************************************************)
(* The files the model loads.  A wide file has one column per year; a long *)
(* file has Year and Value columns.  Every subset of the required columns  *)
(* occurs, and the rows are drawn from a few kinds of row that differ in   *)
(* the slice they belong to and in what their cells hold.                  *)
(***************************************************************************)
Table(cols, rows) == [columns |-> cols, rows |-> rows]

\* All sequences of at most MaxRows rows of the pool
RowSeqs(pool) == UNION {[1..n -> pool] : n \in 0..MaxRows}

RequiredColumns == <<CountryName, IndicatorName, YearName, ValueName>>

\* The columns of `among` that are in S, in the order of `among`
Pick(among, S) == SelectSeq(among, LAMBDA c : c \in S)

WideIdColumns ==
  {Pick(RequiredColumns, S) : S \in SUBSET {CountryName, IndicatorName}}

\* 2014 and 2016 with a gap; a year column written with a leading blank;
\* years that all lie after 2015; a single year column written with a
\* trailing blank.
WideYearColumns ==
  { <<str(2014), str(2016)>>,
    <<str(2014), <<" ">> \o str(2015), str(2016)>>,
    <<str(2016), str(2017)>>,
    <<str(2015) \o <<" ">>>> }

WideKinds ==
  { [c |-> <<"A">>, i |-> <<"I">>, p |-> "full"],
    [c |-> <<"A">>, i |-> <<"I">>, p |-> "gaps"],
    [c |-> <<"B">>, i |-> <<"J">>, p |-> "text"],
    [c |-> <<>>,    i |-> <<"I">>, p |-> "full"] }

\* The cell of the k-th year column: a number, a gap in every other column,
\* or text that is no number.
WideCell(p, k) ==
  CASE p = "full" -> <<"7">>
    [] p = "gaps" -> IF k % 2 = 1 THEN <<>> ELSE <<"9">>
    [] OTHER      -> <<"x">>

WideRow(kind, idc, yc) ==
  [j \in 1..Len(idc) |-> IF idc[j] = CountryName THEN kind.c ELSE kind.i]
    \o [k \in 1..Len(yc) |-> WideCell(kind.p, k)]

WideTables ==
  UNION { { Table(idc \o yc, rows) :
              rows \in RowSeqs({WideRow(kd, idc, yc) : kd \in WideKinds}) } :
          idc \in WideIdColumns, yc \in WideYearColumns }

LongColumns ==
  {Pick(RequiredColumns, S) : S \in SUBSET Range(RequiredColumns)}

LongKinds ==
  { [c |-> <<"A">>, i |-> <<"I">>, y |-> str(2014),                 v |-> <<"7">>],
    [c |-> <<"A">>, i |-> <<"I">>, y |-> str(2014),                 v |-> <<"x">>],
    [c |-> <<"A">>, i |-> <<"I">>, y |-> <<"a", "b", "c">>,         v |-> <<"7">>],
    [c |-> <<"A">>, i |-> <<"I">>, y |-> str(2014) \o <<".", "5">>, v |-> <<"9">>],
    [c |-> <<"A">>, i |-> <<"I">>, y |-> str(2016),                 v |-> <<>>],
    [c |-> <<"B">>, i |-> <<"J">>, y |-> str(2016),                 v |-> <<"7">>] }

LongRow(kind, cols) ==
  [j \in 1..Len(cols) |->
     CASE cols[j] = CountryName   -> kind.c
       [] cols[j] = IndicatorName -> kind.i
       [] cols[j] = YearName      -> kind.y
       [] OTHER                   -> kind.v]

LongTables ==
  UNION { { Table(cols, rows) :
              rows \in RowSeqs({LongRow(kd, cols) : kd \in LongKinds}) } :
          cols \in LongColumns }

Tables == WideTables \cup LongTables

(***************************************************************************)
(* State                                                                   *)
(***************************************************************************)
VARIABLES
  cache,               \* the table st.cache_data holds for "EdStatsData.csv"
  sort_kind,           \* how this build's default sort orders equal keys
  session,             \* the widgets' values kept between runs
  pc,                  \* the position of the running script
  out,                 \* the elements this run has put on the page
  df_raw,              \* this run's table
  year_cols, is_wide, miss, found,
  options, country, indicator,
  y_min, y_max, start_default, end_default, yr,
  selected_year_cols, sub_long,
  clean, future_years, counts,
  snap,                \* observer: one remembered (selection, long series)
  warned               \* observer: an earlier run ended with the warning

page == <<out, year_cols, is_wide, miss, found, options, country, indicator,
          y_min, y_max, start_default, end_default, yr,
          selected_year_cols, sub_long, clean, future_years, counts>>

vars == <<cache, sort_kind, session, pc, df_raw, page, snap, warned>>

NoTable == Table(<<>>, <<>>)

Unset == [set |-> FALSE, val |-> <<>>]

Chosen(v) == [set |-> TRUE, val |-> v]

NoSnap == [taken |-> FALSE, country |-> None, indicator |-> None,
           yr |-> <<0, 0>>, sub_long |-> <<>>]

\* What a run starts from: nothing computed, nothing on the page.
Blank ==
  /\ out = <<>>
  /\ df_raw = NoTable
  /\ year_cols = <<>> /\ is_wide = FALSE /\ miss = <<>> /\ found = <<>>
  /\ options = [country |-> <<>>, indicator |-> <<>>]
  /\ country = None /\ indicator = None
  /\ y_min = 0 /\ y_max = 0 /\ start_default = 0 /\ end_default = 0
  /\ yr = <<0, 0>>
  /\ selected_year_cols = <<>> /\ sub_long = <<>>
  /\ clean = <<>> /\ future_years = <<>> /\ counts = <<>>

SortKinds == {"stable", "unstable"}

Init ==
  /\ cache \in Tables
  /\ sort_kind \in SortKinds
  /\ session = [country |-> Unset, indicator |-> Unset, yr |-> Unset]
  /\ pc = "load"
  /\ Blank
  /\ snap = NoSnap
  /\ warned = FALSE

(***************************************************************************)
(* Lines 14-32: load, detect the format, check the columns                 *)
(***************************************************************************)
PreviewLimit == 30

\* year_cols = [c for c in df_raw.columns if str(c).strip().isdigit()]
YearCols(df) == SelectSeq(df.columns, LAMBDA c : isdigit(strip(c)))

\* A list for the long format that forgets "Value"
needed_WithoutValue(wide) ==
  IF wide THEN <<CountryName, IndicatorName>>
  ELSE <<CountryName, IndicatorName, YearName>>

needed(wide) ==
  IF wide THEN <<CountryName, IndicatorName>>
  ELSE <<CountryName, IndicatorName, YearName, ValueName>>

\* miss = [c for c in needed if c not in df_raw.columns]
Missing(df, wide) == SelectSeq(needed(wide), LAMBDA c : ~HasColumn(df, c))

Detect ==
  /\ pc = "load"
  /\ df_raw' = cache
  /\ LET yc == YearCols(cache)
         wide == Len(yc) > 0
         m == Missing(cache, wide)
     IN /\ year_cols' = yc
        /\ is_wide' = wide
        /\ miss' = m
        /\ IF m # <<>>
           THEN /\ out' = <<"title", "error">>
                /\ found' = SubSeq(cache.columns, 1,
                                   Min(PreviewLimit, Len(cache.columns)))
                /\ pc' = "stopped"
           ELSE /\ out' = <<"title">>
                /\ found' = <<>>
                /\ pc' = "filters"
  /\ UNCHANGED <<cache, sort_kind, session, snap, warned, options, country,
                 indicator,
                 y_min, y_max, start_default, end_default, yr,
                 selected_year_cols, sub_long, clean, future_years, counts>>

(***************************************************************************)
(* Lines 35-54: the selectors                                              *)
(***************************************************************************)
DefaultFrom == 1970

DefaultTo == 2015

\* sorted(df_raw[c].dropna().unique())
Options(df, c) ==
  sorted({Cell(df, r, c) : r \in 1..Len(df.rows)} \ {<<>>})

\* st.selectbox: the kept choice, else the first option, else None
selectbox(widget, opts) ==
  IF widget.set THEN widget.val
  ELSE IF opts = <<>> THEN None ELSE opts[1]

SetMin(S) == CHOOSE x \in S : \A y \in S : x <= y

SetMax(S) == CHOOSE x \in S : \A y \in S : x >= y

\* y_min, y_max.  Wide: over int(c) of the year columns.  Long: over the
\* coerced Year column, NaN skipped; min() and max() of nothing are NaN and
\* int(NaN) raises ValueError.
YearBounds(df, wide, yc) ==
  IF wide
  THEN LET ys == {int(c) : c \in Range(yc)}
       IN [ok |-> TRUE, lo |-> SetMin(ys), hi |-> SetMax(ys)]
  ELSE LET col == {to_numeric(Cell(df, r, YearName)) : r \in 1..Len(df.rows)}
           ys == {x.v : x \in {z \in col : ~z.nan}}
       IN IF ys = {} THEN [ok |-> FALSE, lo |-> 0, hi |-> 0]
          ELSE [ok |-> TRUE, lo |-> int_float(Num(SetMin(ys))),
                             hi |-> int_float(Num(SetMax(ys)))]

\* st.slider accepts a value only inside [min_value, max_value]
SliderAccepts(lo, hi, value) ==
  /\ lo <= value[1] /\ value[1] <= hi
  /\ lo <= value[2] /\ value[2] <= hi

Filters ==
  /\ pc = "filters"
  /\ LET oc == Options(df_raw, CountryName)
         oi == Options(df_raw, IndicatorName)
         b  == YearBounds(df_raw, is_wide, year_cols)
         sd == Max(DefaultFrom, b.lo)
         ed == Min(DefaultTo, b.hi)
         boxes == <<"selectbox_country", "selectbox_indicator">>
     IN /\ options' = [country |-> oc, indicator |-> oi]
        /\ country' = selectbox(session.country, oc)
        /\ indicator' = selectbox(session.indicator, oi)
        /\ IF ~b.ok
           THEN /\ out' = out \o boxes \o <<"exception">>
                /\ pc' = "crashed"
                /\ UNCHANGED <<y_min, y_max, start_default, end_default, yr>>
           ELSE /\ y_min' = b.lo
                /\ y_max' = b.hi
                /\ start_default' = sd
                /\ end_default' = ed
                /\ IF SliderAccepts(b.lo, b.hi, <<sd, ed>>)
                   THEN /\ yr' = IF session.yr.set THEN session.yr.val
                                 ELSE <<sd, ed>>
                        /\ out' = out \o boxes \o <<"slider">>
                        /\ pc' = "build"
                   ELSE /\ yr' = yr
                        /\ out' = out \o boxes \o <<"exception">>
                        /\ pc' = "crashed"
  /\ UNCHANGED <<cache, sort_kind, session, snap, warned, df_raw, year_cols,
                 is_wide, miss, found, selected_year_cols, sub_long, clean,
                 future_years, counts>>

(***************************************************************************)
(* Lines 57-80: the long series of the selected slice                      *)
(***************************************************************************)
\* sub: the numbers of the rows of the selection (a NaN cell equals nothing)
Sub(df, c, i) ==
  SelectSeq([r \in 1..Len(df.rows) |-> r],
            LAMBDA r : /\ Cell(df, r, CountryName) = c
                       /\ Cell(df, r, IndicatorName) = i)

\* A slice taken in place: df_raw is left with the rows of the selection
AfterSlice_InPlace(df, sub) ==
  Table(df.columns, [n \in 1..Len(sub) |-> df.rows[sub[n]]])

\* df_raw after sub = df_raw[...].copy(): the slice is a copy, df_raw is as
\* it was
AfterSlice(df, sub) == df

\* A guard that never stops the run
NoYearColumns_Never(sel) == FALSE

\* if not selected_year_cols
NoYearColumns(sel) == sel = <<>>

\* [str(y) for y in range(yr[0], yr[1] + 1) if str(y) in sub.columns]
SelectedYearCols(df, y) ==
  SelectSeq([k \in 1..(y[2] - y[1] + 1) |-> str(y[1] + k - 1)],
            LAMBDA c : HasColumn(df, c))

\* The cells of row r in the columns that are not pivoted away
IdVars(df, r, drop) ==
  LET keep == SelectSeq(df.columns, LAMBDA c : c \notin drop)
  IN [j \in 1..Len(keep) |-> Cell(df, r, keep[j])]

\* sub.melt(...) and the two coercions: one record per (year column, row),
\* year column by year column, with a fresh index
Melt(df, sub, yc, value_vars) ==
  [n \in 1..(Len(value_vars) * Len(sub)) |->
     LET c == value_vars[((n - 1) \div Len(sub)) + 1]
         r == sub[((n - 1) % Len(sub)) + 1]
     IN [idx   |-> n - 1,
         id    |-> IdVars(df, r, Range(yc)),
         Year  |-> to_numeric(c),
         Value |-> to_numeric(Cell(df, r, c))]]

\* sub.copy() with Year and Value coerced; the rows keep their index
Coerced(df, sub) ==
  [n \in 1..Len(sub) |->
     [idx   |-> sub[n] - 1,
      id    |-> IdVars(df, sub[n], {YearName, ValueName}),
      Year  |-> to_numeric(Cell(df, sub[n], YearName)),
      Value |-> to_numeric(Cell(df, sub[n], ValueName))]]

\* A range that leaves out its last year
InRange_Exclusive(s, y) ==
  SelectSeq(s, LAMBDA rec : /\ ~rec.Year.nan
                            /\ rec.Year.v >= 10 * y[1]
                            /\ rec.Year.v < 10 * y[2])

\* (Year >= yr[0]) & (Year <= yr[1]): a comparison with NaN is False
InRange(s, y) ==
  SelectSeq(s, LAMBDA rec : /\ ~rec.Year.nan
                            /\ rec.Year.v >= 10 * y[1]
                            /\ rec.Year.v <= 10 * y[2])

\* dropna(subset=["Year"])
DropnaYear(s) == SelectSeq(s, LAMBDA rec : ~rec.Year.nan)

\* No sort at all
SortValues_Unsorted(s, kind) == s

\* sort_values("Year"): ascending.  The default kind is quicksort, which
\* pandas documents as not stable: records with equal Year come out in an
\* order the build decides ("stable": as they were; "unstable": reversed).
RECURSIVE SortValues(_, _)
SortValues(s, kind) ==
  IF s = <<>> THEN <<>>
  ELSE LET first ==
             CHOOSE i \in 1..Len(s) : \A j \in (1..Len(s)) \ {i} :
               \/ s[i].Year.v < s[j].Year.v
               \/ /\ s[i].Year.v = s[j].Year.v
                  /\ IF kind = "stable" THEN i < j ELSE i > j
           rest == [k \in 1..(Len(s) - 1) |->
                      IF k < first THEN s[k] ELSE s[k + 1]]
       IN <<s[first]>> \o SortValues(rest, kind)

Build ==
  /\ pc = "build"
  /\ LET sub == Sub(df_raw, country, indicator)
         sel == SelectedYearCols(df_raw, yr)
     IN IF is_wide /\ NoYearColumns(sel)
        THEN /\ selected_year_cols' = sel
             /\ out' = out \o <<"warning">>
             /\ pc' = "stopped"
             /\ UNCHANGED sub_long
        ELSE /\ selected_year_cols' = IF is_wide THEN sel ELSE <<>>
             /\ sub_long' =
                  SortValues(
                    DropnaYear(IF is_wide
                               THEN Melt(df_raw, sub, year_cols, sel)
                               ELSE InRange(Coerced(df_raw, sub), yr)),
                    sort_kind)
             /\ out' = out
             /\ pc' = "charts"
  /\ df_raw' = AfterSlice(df_raw, Sub(df_raw, country, indicator))
  /\ UNCHANGED <<cache, sort_kind, session, snap, warned, year_cols,
                 is_wide, miss, found, options, country, indicator, y_min, y_max,
                 start_default, end_default, yr, clean, future_years, counts>>

(***************************************************************************)
(* Lines 83-124: the four charts                                           *)
(***************************************************************************)
MinPoints == 2

Horizon == 10

\* dropna(subset=["Value"])
DropnaValue(s) == SelectSeq(s, LAMBDA rec : ~rec.Value.nan)

\* if len(clean) >= 2
EnoughPoints_Strict(cl) == Len(cl) > MinPoints

EnoughPoints(cl) == Len(cl) >= MinPoints

\* A forecast that starts at the last observed year
FutureYears_FromLast(cl) ==
  LET last == int_float(Num(SetMax({cl[i].Year.v : i \in 1..Len(cl)})))
  IN [k \in 1..Horizon |-> last + k - 1]

\* np.arange(int(clean["Year"].max()) + 1, int(clean["Year"].max()) + 11)
FutureYears(cl) ==
  LET last == int_float(Num(SetMax({cl[i].Year.v : i \in 1..Len(cl)})))
  IN [k \in 1..Horizon |-> last + k]

\* The rate of the values that are present
MissingRate_Present(missing, total) ==
  IF total > 0 THEN [num |-> total - missing, den |-> total]
  ELSE [num |-> 0, den |-> 1]

\* np.where(total > 0, missing / total, 0), as a fraction
MissingRate(missing, total) ==
  IF total > 0 THEN [num |-> missing, den |-> total]
  ELSE [num |-> 0, den |-> 1]

RECURSIVE Ascending(_)
Ascending(S) ==
  IF S = {} THEN <<>> ELSE <<SetMin(S)>> \o Ascending(S \ {SetMin(S)})

\* groupby("Year")["Value"].agg(total="size", missing=...).reset_index()
\* with the missing_rate column: one row per Year, in ascending order
Counts(s) ==
  LET keys == Ascending({s[i].Year.v : i \in 1..Len(s)})
  IN [g \in 1..Len(keys) |->
        LET group == SelectSeq(s, LAMBDA rec : rec.Year.v = keys[g])
            total == Len(group)
            missing == Len(SelectSeq(group, LAMBDA rec : rec.Value.nan))
        IN [Year |-> Num(keys[g]), total |-> total, missing |-> missing,
            missing_rate |-> MissingRate(missing, total)]]

\* The fitted line's values are floating point and are left out of pred_df:
\* future_years is its Year column.
Charts ==
  /\ pc = "charts"
  /\ LET cl == DropnaValue(sub_long)
     IN /\ clean' = cl
        /\ IF EnoughPoints(cl)
           THEN /\ future_years' = FutureYears(cl)
                /\ out' = out \o <<"chart_trend", "chart_forecast",
                                   "chart_missing", "chart_hist", "caption">>
           ELSE /\ future_years' = <<>>
                /\ out' = out \o <<"chart_trend", "info",
                                   "chart_missing", "chart_hist", "caption">>
        /\ counts' = Counts(sub_long)
  /\ pc' = "done"
  /\ UNCHANGED <<cache, sort_kind, session, snap, warned, df_raw, year_cols,
                 is_wide, miss, found, options, country, indicator, y_min, y_max,
                 start_default, end_default, yr, selected_year_cols, sub_long>>

(***************************************************************************)
(* The user changes a widget that is on the page: the script runs again    *)
(***************************************************************************)
Ended == pc \in {"done", "stopped", "crashed"}

Rerun ==
  /\ pc' = "load"
  /\ out' = <<>>
  /\ df_raw' = NoTable
  /\ year_cols' = <<>> /\ is_wide' = FALSE /\ miss' = <<>> /\ found' = <<>>
  /\ options' = [country |-> <<>>, indicator |-> <<>>]
  /\ country' = None /\ indicator' = None
  /\ y_min' = 0 /\ y_max' = 0 /\ start_default' = 0 /\ end_default' = 0
  /\ yr' = <<0, 0>>
  /\ selected_year_cols' = <<>> /\ sub_long' = <<>>
  /\ clean' = <<>> /\ future_years' = <<>> /\ counts' = <<>>
  /\ warned' = (warned \/ "warning" \in Range(out))
  /\ UNCHANGED <<cache, sort_kind, snap>>

SelectCountry ==
  /\ Ended
  /\ "selectbox_country" \in Range(out)
  /\ \E c \in Range(options.country) :
       /\ c # country
       /\ session' = [session EXCEPT !.country = Chosen(c)]
  /\ Rerun

SelectIndicator ==
  /\ Ended
  /\ "selectbox_indicator" \in Range(out)
  /\ \E i \in Range(options.indicator) :
       /\ i # indicator
       /\ session' = [session EXCEPT !.indicator = Chosen(i)]
  /\ Rerun

SlideYears ==
  /\ Ended
  /\ "slider" \in Range(out)
  /\ \E lo \in y_min..y_max : \E hi \in lo..y_max :
       /\ <<lo, hi>> # yr
       /\ session' = [session EXCEPT !.yr = Chosen(<<lo, hi>>)]
  /\ Rerun

Next ==
  \/ Detect
  \/ Filters
  \/ Build
  \/ Charts
  \/ SelectCountry
  \/ SelectIndicator
  \/ SlideYears

Spec == Init /\ [][Next]_vars

(***************************************************************************)
(* The same program watched by an observer that remembers the long series  *)
(* of one finished run, to compare later runs of the same selection with   *)
(* it.  It loads the valid files of MaxRows rows, no two of them alike, in *)
(* the build whose sort reorders equal keys.                               *)
(***************************************************************************)
Snapshot ==
  /\ pc = "done"
  /\ ~snap.taken
  /\ snap' = [taken |-> TRUE, country |-> country, indicator |-> indicator,
              yr |-> yr, sub_long |-> sub_long]
  /\ UNCHANGED <<cache, sort_kind, session, pc, df_raw, page, warned>>

InitObserved ==
  /\ Init
  /\ sort_kind = "unstable"
  /\ Len(cache.rows) = MaxRows
  /\ Cardinality(Range(cache.rows)) = MaxRows
  /\ Missing(cache, Len(YearCols(cache)) > 0) = <<>>

NextObserved == Next \/ Snapshot

SpecObserved == InitObserved /\ [][NextObserved]_vars

(***************************************************************************)
(* The properties.  What a property says of names, years and counts is     *)
(* defined here in the words of the specification, apart from the          *)
(* operators the script is modelled with.                                  *)
(***************************************************************************)
Page == Range(out)

Charted == pc \in {"charts", "done"}

\* A name that, without its leading and trailing blanks, is all digits
TrimmedAllDigits(c) ==
  \E a \in 1..Len(c) : \E b \in a..Len(c) :
    /\ \A i \in 1..(a - 1) : c[i] = " "
    /\ \A i \in (b + 1)..Len(c) : c[i] = " "
    /\ \A i \in a..b : c[i] \in DigitSet

Shape == IF \E c \in Range(cache.columns) : TrimmedAllDigits(c)
         THEN "Wide" ELSE "Long"

Required ==
  IF Shape = "Wide" THEN {CountryName, IndicatorName}
  ELSE {CountryName, IndicatorName, YearName, ValueName}

Absent == Required \ Range(cache.columns)

\* The rows of the table that belong to the selection
Selected ==
  {r \in 1..Len(cache.rows) :
     /\ HasColumn(cache, CountryName) /\ HasColumn(cache, IndicatorName)
     /\ Cell(cache, r, CountryName) = country
     /\ Cell(cache, r, IndicatorName) = indicator}

Positions(s) == 1..Len(s)

\* C1: a run ends with the fatal schema error exactly when a column
\* required for the detected shape (Wide iff some trimmed column name is all
\* digits) is absent; the error lists exactly the absent required columns,
\* and nothing but the title and the error is on the page of that run: no
\* selector, no long series, no chart, no notice.
C1_SchemaErrorIffRequiredColumnAbsent ==
  pc # "load" =>
    /\ is_wide = (Shape = "Wide")
    /\ ("error" \in Page) = (Absent # {})
    /\ "error" \in Page =>
         /\ Range(miss) = Absent
         /\ Len(miss) = Cardinality(Absent)
         /\ pc = "stopped"
         /\ out = <<"title", "error">>
         /\ sub_long = <<>> /\ counts = <<>> /\ future_years = <<>>

C1_Witness ==
  /\ pc = "stopped"
  /\ "error" \in Page
  /\ ~is_wide
  /\ miss = <<YearName, ValueName>>

\* C2: in the Wide branch the pivoted columns are exactly the year columns
\* (trimmed name all digits) whose integer value lies in the selected range.
C2_PivotsExactlyTheYearColumnsInRange ==
  (is_wide /\ Charted) =>
    Range(selected_year_cols) =
      {c \in Range(cache.columns) :
         TrimmedAllDigits(c) /\ yr[1] <= int(c) /\ int(c) <= yr[2]}

\* C3: in a Wide run, when no column is selected for the range, the warning
\* is emitted and the run stops with the selectors on the page and no chart
\* and no notice; the warning is emitted in no other case, never in the Long
\* branch, and a run in which a column is selected goes on to the charts
\* whatever the runs before it did.
C3_EmptyRangeWarnsAndStopsThisRunOnly ==
  LET none == \A y \in yr[1]..yr[2] : ~HasColumn(cache, str(y))
      built == "slider" \in Page /\ pc # "build"
  IN /\ (built /\ is_wide /\ none) =>
          /\ pc = "stopped"
          /\ out = <<"title", "selectbox_country", "selectbox_indicator",
                     "slider", "warning">>
          /\ sub_long = <<>> /\ counts = <<>> /\ future_years = <<>>
     /\ "warning" \in Page => (built /\ is_wide /\ none)
     /\ (built /\ ~(is_wide /\ none)) => Charted
     /\ pc = "load" => out = <<>>

C3_Witness ==
  /\ warned
  /\ is_wide
  /\ pc = "done"
  /\ {"chart_trend", "chart_forecast", "chart_missing", "chart_hist"}
       \subseteq Page

\* C4: in the Long branch a row of the selection is in the long series
\* exactly when its Year is a number within the selected range (once, under
\* its own index); a row whose Year is no number is dropped, and a row whose
\* Value is no number is kept with a missing Value.
C4_LongKeepsRowsWithYearInRange ==
  (~is_wide /\ Charted) =>
    /\ \A r \in Selected :
         LET year == to_numeric(Cell(cache, r, YearName))
             value == to_numeric(Cell(cache, r, ValueName))
             at == {n \in Positions(sub_long) : sub_long[n].idx = r - 1}
         IN IF /\ ~year.nan
               /\ 10 * yr[1] <= year.v
               /\ year.v <= 10 * yr[2]
            THEN /\ Cardinality(at) = 1
                 /\ \A n \in at : /\ sub_long[n].Year = year
                                  /\ sub_long[n].Value = value
            ELSE at = {}
    /\ \A n \in Positions(sub_long) : sub_long[n].idx + 1 \in Selected

C4_Witness ==
  /\ ~is_wide
  /\ pc = "done"
  /\ Cardinality(Selected) = 3
  /\ \E r \in Selected : to_numeric(Cell(cache, r, YearName)).nan
  /\ Len(sub_long) = 2
  /\ \E n \in Positions(sub_long) : sub_long[n].Value.nan

\* C5: a finished run shows the forecast exactly when the long series has at
\* least 2 records with a Value, and the notice in its place otherwise (also
\* for a selection without rows); the trend, completeness and distribution
\* charts are on the page either way, and a run that has built its long
\* series always gets through the charts.
C5_ForecastIffTwoPoints ==
  LET points == {n \in Positions(sub_long) : ~sub_long[n].Value.nan}
  IN /\ pc = "charts" => ENABLED Charts
     /\ pc = "done" =>
          /\ ("chart_forecast" \in Page) = (Cardinality(points) >= 2)
          /\ (future_years # <<>>) = (Cardinality(points) >= 2)
          /\ ("info" \in Page) = (Cardinality(points) < 2)
          /\ {"chart_trend", "chart_missing", "chart_hist"} \subseteq Page
     /\ pc # "done" => {"chart_forecast", "info"} \cap Page = {}

C5_Witness ==
  /\ pc = "done"
  /\ Len(sub_long) = 0
  /\ "info" \in Page
  /\ {"chart_trend", "chart_missing", "chart_hist"} \subseteq Page

\* The Years (in tenths) of the records of the long series with a Value
CleanYears ==
  {sub_long[n].Year.v :
     n \in {m \in Positions(sub_long) : ~sub_long[m].Value.nan}}

\* C6 as stated: a forecast has exactly 10 Years, (max Year in Clean) + 1
\* up to (max Year in Clean) + 10.
C6_ForecastStartsAtMaxYearPlusOne ==
  future_years # <<>> =>
    /\ Len(future_years) = 10
    /\ \A k \in 1..10 : 10 * future_years[k] = SetMax(CleanYears) + 10 * k

\* C6 amended: a forecast has exactly 10 Years, the consecutive integers
\* that start one after the whole part of the largest Year in Clean (which
\* is that Year itself when it is an integer), repeated Years included.
C6_ForecastStartsAfterWholeMaxYear ==
  future_years # <<>> =>
    LET top == SetMax(CleanYears)
        whole == CHOOSE n \in yr[1]..yr[2] : 10 * n <= top /\ top < 10 * (n + 1)
    IN /\ Len(future_years) = 10
       /\ \A k \in 1..10 : future_years[k] = whole + k

C6_Witness ==
  /\ pc = "done"
  /\ future_years # <<>>
  /\ SetMax(CleanYears) % 10 # 0
  /\ Cardinality(CleanYears) < Len(clean)

\* C7: the completeness table has exactly one entry per distinct Year of the
\* long series, with total the number of its records, missing the number of
\* them without a Value and missing_rate = missing / total, so that
\* 0 <= missing <= total and 0 <= missing_rate <= 1, and missing_rate = 0
\* when total = 0.
C7_CompletenessPerDistinctYear ==
  pc = "done" =>
    LET years == {sub_long[n].Year : n \in Positions(sub_long)}
    IN /\ {counts[g].Year : g \in Positions(counts)} = years
       /\ Len(counts) = Cardinality(years)
       /\ \A g \in Positions(counts) :
            LET group == {n \in Positions(sub_long) :
                            sub_long[n].Year = counts[g].Year}
                gone == {n \in group : sub_long[n].Value.nan}
                rate == counts[g].missing_rate
            IN /\ counts[g].total = Cardinality(group)
               /\ counts[g].missing = Cardinality(gone)
               /\ rate.den > 0
               /\ rate.num * counts[g].total = counts[g].missing * rate.den
               /\ 0 <= counts[g].missing /\ counts[g].missing <= counts[g].total
               /\ 0 <= rate.num /\ rate.num <= rate.den
               /\ counts[g].total = 0 => rate.num = 0

C7_Witness ==
  /\ pc = "done"
  /\ is_wide
  /\ Cardinality(Selected) = 1
  /\ \E g \in Positions(counts) :
       /\ counts[g].total = 1
       /\ counts[g].missing = 1
       /\ counts[g].missing_rate = [num |-> 1, den |-> 1]
  /\ \E g \in Positions(counts) : counts[g].missing = 0

\* C8 as stated: the long series is sorted ascending by Year, has no record
\* with a missing Year, and records with equal Year are in the order of the
\* original rows.
C8_SortedWithTiesInOriginalOrder ==
  Charted =>
    \A n \in Positions(sub_long) :
      /\ ~sub_long[n].Year.nan
      /\ \A m \in Positions(sub_long) :
           n < m =>
             /\ sub_long[n].Year.v <= sub_long[m].Year.v
             /\ sub_long[n].Year.v = sub_long[m].Year.v =>
                  sub_long[n].idx < sub_long[m].idx

\* C8 amended: the long series is sorted ascending by Year and has no record
\* with a missing Year; each record is there once; the order of records
\* with equal Year is not settled.
C8_SortedByYearWithoutMissingYear ==
  Charted =>
    \A n \in Positions(sub_long) :
      /\ ~sub_long[n].Year.nan
      /\ \A m \in Positions(sub_long) :
           n < m =>
             /\ sub_long[n].Year.v <= sub_long[m].Year.v
             /\ sub_long[n].idx # sub_long[m].idx

C8_Witness ==
  /\ pc = "done"
  /\ ~is_wide
  /\ Len(sub_long) = 3
  /\ sub_long[1].Year = sub_long[2].Year
  /\ sub_long[1].idx > sub_long[2].idx
  /\ sub_long[2].Year.v < sub_long[3].Year.v
  /\ sub_long[3].idx < sub_long[1].idx

C10_DefaultWindowWithinBounds ==
  (pc \notin {"load", "filters"} /\ "error" \notin Page) =>
    /\ "exception" \notin Page
    /\ y_min <= start_default
    /\ start_default <= end_default
    /\ end_default <= y_max

====
